---- MODULE Spec2Model ----
(***************************************************************************)
(* docbot-fe: the client-side state of the document Q&A dashboard.         *)
(*                                                                         *)
(*   Dashboard        isIndexing / isReady / documents / lastIndexedAt /   *)
(*                    lastMessage, conversations, localStorage             *)
(*   DocumentManager  selectedFiles, error, the caller of indexDocuments   *)
(*   ChatArea         message list, in-flight flag, history load / flush   *)
(*   parseAnswer, extractAnswer   pure functions on strings / responses    *)
(*                                                                         *)
(* A JavaScript string is modelled as a sequence of one-character strings. *)
(* Every action is one run-to-completion piece of a handler: the code up   *)
(* to its await, or the continuation after it, together with the effects   *)
(* React runs for the state it changed.  The handlers are called by the    *)
(* presentation layer; the model calls them whenever their component is    *)
(* mounted and lets the guards written in the handlers decide.             *)
(***************************************************************************)
EXTENDS Integers, Sequences, FiniteSets, Bags, TLC

VARIABLES
    page,                  \* which Dashboard of the repository is running
    activeTab,             \* Dashboard: "conversations" | "documents"
    isIndexing,            \* Dashboard
    isReady,               \* Dashboard
    documents,             \* Dashboard: sequence of IndexedDocument
    lastIndexedAt,         \* Dashboard: timestamp or Undefined
    lastMessage,           \* Dashboard: string or Undefined
    conversations,         \* Dashboard: sequence of conversations
    activeConversationId,  \* Dashboard
    storage,               \* window.localStorage: key -> value or Absent
    selectedFiles,         \* DocumentManager
    error,                 \* DocumentManager
    chat,                  \* the mounted ChatArea instance, or Unmounted
    indexCalls,            \* outstanding sendIndexRequest calls
    queries,               \* outstanding queryDocuments calls
    now,                   \* the clock new Date() reads
    booted,                \* the mount effects of the first commit have run
    lastStep,              \* what the last step called and what it saw
    raw,                   \* parser check: the raw answer
    parsed,                \* parser check: parseAnswer(raw)
    reparsed,              \* parser check: parseAnswer(parsed.content)
    resp,                  \* extraction check: the query response
    extracted              \* extraction check: extractAnswer(resp)

vars == <<page, activeTab, isIndexing, isReady, documents, lastIndexedAt,
          lastMessage, conversations, activeConversationId, storage,
          selectedFiles, error, chat, indexCalls, queries, now, booted,
          lastStep, raw, parsed, reparsed, resp, extracted>>

dashboardVars == <<page, activeTab, isIndexing, isReady, documents,
                   lastIndexedAt, lastMessage, conversations,
                   activeConversationId, storage, selectedFiles, error, chat,
                   indexCalls, queries, now, booted, lastStep>>

pureVars == <<raw, parsed, reparsed, resp, extracted>>

-----------------------------------------------------------------------------
(* Bounds of the model.                                                    *)

MaxLen == 5            \* longest enumerated raw answer, in characters
MaxClock == 1          \* clock ticks in one run
MaxCalls == 2          \* index calls outstanding at once
MaxDocs == 3           \* documents in the list
MaxSends == 2          \* accepted sends in one message list
MaxQueries == 2        \* query calls outstanding at once
MaxConversations == 3  \* conversations in the list

-----------------------------------------------------------------------------
(* Values.                                                                 *)

\* An optional value (string | undefined) is a sequence of length 0 or 1.
Undefined == <<>>
Some(x) == <<x>>

LB == "["
RB == "]"
SP == " "
NL == "\n"
Chars == {LB, RB, SP, NL, "a", "b"}
WhiteSpace == {SP, NL}

Str(n) == UNION {[1..k -> Chars] : k \in 0..n}

-----------------------------------------------------------------------------
(* String.prototype.trim                                                   *)

RECURSIVE TrimStart(_)
TrimStart(s) ==
    IF s = <<>> THEN s
    ELSE IF Head(s) \in WhiteSpace THEN TrimStart(Tail(s)) ELSE s

RECURSIVE TrimEnd(_)
TrimEnd(s) ==
    IF s = <<>> THEN s
    ELSE IF s[Len(s)] \in WhiteSpace THEN TrimEnd(SubSeq(s, 1, Len(s) - 1))
    ELSE s

trim(s) == TrimEnd(TrimStart(s))

-----------------------------------------------------------------------------
(* parseAnswer                                                             *)

\* The index of the first "]" of s at or after i, 0 when there is none.
RECURSIVE FirstClose(_, _)
FirstClose(s, i) ==
    IF i > Len(s) THEN 0
    ELSE IF s[i] = RB THEN i ELSE FirstClose(s, i + 1)

\* answer.matchAll(/\[[^\]]+\]/g) from index i on: the matches, left to
\* right, as [from, to] index pairs.  A "[" matches when the first "]"
\* after it is at least two places on; the search goes on after the match,
\* or at the next index when there is none.
RECURSIVE MatchesFrom(_, _)
MatchesFrom(s, i) ==
    IF i > Len(s) THEN <<>>
    ELSE IF s[i] = LB
         THEN LET j == FirstClose(s, i + 1)
              IN  IF j >= i + 2
                  THEN <<[from |-> i, to |-> j]>> \o MatchesFrom(s, j + 1)
                  ELSE MatchesFrom(s, i + 1)
         ELSE MatchesFrom(s, i + 1)

matchAll(s) == MatchesFrom(s, 1)

Includes(seq, x) == \E k \in 1..Len(seq) : seq[k] = x

\* matches.forEach without the includes test: every ref that is not empty
\* is pushed.
RECURSIVE CollectRefsRepeated(_, _, _)
CollectRefsRepeated(s, matches, references) ==
    IF matches = <<>> THEN references
    ELSE LET m == Head(matches)
             ref == trim(SubSeq(s, m.from + 1, m.to - 1))
         IN  CollectRefsRepeated(s, Tail(matches),
                                 IF ref # <<>>
                                 THEN Append(references, ref)
                                 ELSE references)

\* matches.forEach: ref = match[0].slice(1, -1).trim(), pushed when it is
\* not empty and not yet among the references.
RECURSIVE CollectRefs(_, _, _)
CollectRefs(s, matches, references) ==
    IF matches = <<>> THEN references
    ELSE LET m == Head(matches)
             ref == trim(SubSeq(s, m.from + 1, m.to - 1))
         IN  CollectRefs(s, Tail(matches),
                         IF ref # <<>> /\ ~Includes(references, ref)
                         THEN Append(references, ref)
                         ELSE references)

\* answer.replace(/\[[^\]]+\]/g, "")
RECURSIVE RemoveMatches(_, _, _)
RemoveMatches(s, matches, i) ==
    IF i > Len(s) THEN <<>>
    ELSE IF matches # <<>> /\ i = Head(matches).from
         THEN RemoveMatches(s, Tail(matches), Head(matches).to + 1)
         ELSE <<s[i]>> \o RemoveMatches(s, matches, i + 1)

\* The length of the run of newlines of s that starts at i.
RECURSIVE NewlineRun(_, _)
NewlineRun(s, i) ==
    IF i > Len(s) \/ s[i] # NL THEN 0 ELSE 1 + NewlineRun(s, i + 1)

\* .replace(/\n{3,}/g, "\n\n")
RECURSIVE CollapseFrom(_, _)
CollapseFrom(s, i) ==
    IF i > Len(s) THEN <<>>
    ELSE LET n == NewlineRun(s, i)
         IN  IF n >= 3 THEN <<NL, NL>> \o CollapseFrom(s, i + n)
             ELSE <<s[i]>> \o CollapseFrom(s, i + 1)

CollapseNewlines(s) == CollapseFrom(s, 1)

\* parseAnswer returning `content` as it is, empty or not.
parseAnswerBlank(answer) ==
    LET matches == matchAll(answer)
        references == CollectRefs(answer, matches, <<>>)
        content == IF Len(matches) > 0
                   THEN trim(CollapseNewlines(RemoveMatches(answer, matches, 1)))
                   ELSE trim(answer)
    IN  [content |-> content, references |-> references]

parseAnswer(answer) ==
    LET matches == matchAll(answer)
        references == CollectRefs(answer, matches, <<>>)
        content == IF Len(matches) > 0
                   THEN trim(CollapseNewlines(RemoveMatches(answer, matches, 1)))
                   ELSE trim(answer)
    IN  [content |-> IF Len(content) > 0 THEN content ELSE trim(answer),
         references |-> references]

-----------------------------------------------------------------------------
(* extractAnswer                                                           *)

\* A JavaScript value of a parsed JSON response: t is its kind, s its
\* characters when it is a string, items its elements when it is an array
\* (of strings).  A field the response does not have is JSUndefined.
JSUndefined == [t |-> "undefined", s |-> <<>>, items |-> <<>>]
JSNull == [t |-> "null", s |-> <<>>, items |-> <<>>]
JSNumber == [t |-> "number", s |-> <<>>, items |-> <<>>]
JSString(s) == [t |-> "string", s |-> s, items |-> <<>>]
JSArray(items) == [t |-> "array", s |-> <<>>, items |-> items]
JSObject == [t |-> "object", s |-> <<>>, items |-> <<>>]

\* typeof x
TypeOf(x) ==
    CASE x.t = "string" -> "string"
      [] x.t = "number" -> "number"
      [] x.t = "undefined" -> "undefined"
      [] OTHER -> "object"

\* x used as a condition (numbers of the model are non-zero)
Truthy(x) ==
    CASE x.t = "string" -> x.s # <<>>
      [] x.t \in {"undefined", "null"} -> FALSE
      [] OTHER -> TRUE

DQ == "\""

\* The lines of JSON.stringify(items, null, 2) after the opening bracket.
RECURSIVE StringifyItems(_)
StringifyItems(items) ==
    IF items = <<>> THEN <<>>
    ELSE <<NL, SP, SP, DQ>> \o Head(items) \o <<DQ>>
         \o (IF Len(items) > 1 THEN <<",">> ELSE <<>>)
         \o StringifyItems(Tail(items))

\* JSON.stringify(x, null, 2) of a structured value: {} for the empty
\* object, [] for the empty array, one indented line per element otherwise.
JSONStringify(x) ==
    IF x.t = "array"
    THEN IF x.items = <<>> THEN <<LB, RB>>
         ELSE <<LB>> \o StringifyItems(x.items) \o <<NL, RB>>
    ELSE <<"{", "}">>

\* The fixed text extractAnswer returns when no field has an answer (one
\* element stands for the whole sentence, which has no bracket and no
\* white space at its ends).
NoAnswerText == <<"Khong tim thay cau tra loi phu hop cho cau hoi nay.">>

\* extractAnswer testing the strings before they are trimmed.
extractAnswerUntrimmed(data) ==
    IF TypeOf(data.answer) = "string" /\ data.answer.s # <<>>
    THEN trim(data.answer.s)
    ELSE IF TypeOf(data.response) = "string" /\ data.response.s # <<>>
    THEN trim(data.response.s)
    ELSE IF TypeOf(data.result) = "string" /\ data.result.s # <<>>
    THEN trim(data.result.s)
    ELSE IF Truthy(data.data) /\ TypeOf(data.data) = "string"
    THEN trim(data.data.s)
    ELSE IF Truthy(data.data) /\ TypeOf(data.data) = "object"
    THEN JSONStringify(data.data)
    ELSE NoAnswerText

extractAnswer(data) ==
    IF TypeOf(data.answer) = "string" /\ trim(data.answer.s) # <<>>
    THEN trim(data.answer.s)
    ELSE IF TypeOf(data.response) = "string" /\ trim(data.response.s) # <<>>
    THEN trim(data.response.s)
    ELSE IF TypeOf(data.result) = "string" /\ trim(data.result.s) # <<>>
    THEN trim(data.result.s)
    ELSE IF Truthy(data.data) /\ TypeOf(data.data) = "string"
            /\ trim(data.data.s) # <<>>
    THEN trim(data.data.s)
    ELSE IF Truthy(data.data) /\ TypeOf(data.data) = "object"
    THEN JSONStringify(data.data)
    ELSE NoAnswerText

QueryResponse(a, r, u, d) ==
    [answer |-> a, response |-> r, result |-> u, data |-> d]

-----------------------------------------------------------------------------
(* The two Dashboard components of the repository, and their data.         *)

\* part_000 persists its state and merges re-indexed documents;
\* src/pages/Dashboard.tsx keeps a fixed conversation list and appends.
Pages == {"part_000", "Dashboard.tsx"}

Persistent == page = "part_000"

Tabs == {"conversations", "documents"}

\* The File objects the user can pick: name and size.

FileA == [name |-> "a.pdf", size |-> 1]
FileB == [name |-> "b.pdf", size |-> 2]

\* The selections the file input can hand over: one file, two files, and
\* two files of one name.
Files == {FileA, FileB}

FileSelections == {<<FileA>>, <<FileB, FileA>>, <<FileB, FileB>>}

\* response.message of the index endpoint: optional.
IndexMessages == {Undefined, Some("Indexed")}

\* `Index request failed with status ${response.status}`
IndexFailures == {"Index request failed with status 500"}

defaultConversation ==
    [id |-> "1", title |-> "New Chat", model |-> "Flash",
     timestamp |-> "09:49 PM"]

\* The clock: new Date().toISOString() and Date.now().toString() of the
\* instant `now`.  ISO strings of one width compare as the instants do, so
\* an indexedAt / createdAt is the instant itself; the decimal string of
\* Date.now() is never "1" or "default".
toISOString(t) == t
DateNowString(t) == "17000000000" \o ToString(t)
toLocaleTimeString(t) == "09:5" \o ToString(t) \o " PM"

\* A conversation handleNewConversation made in an earlier run of the page.
earlierConversation ==
    [id |-> "1699999999999", title |-> "New Chat", model |-> "Flash",
     timestamp |-> "09:40 PM"]

ConversationIds ==
    {"default", defaultConversation.id, earlierConversation.id}
    \cup {DateNowString(t) : t \in 0..(MaxClock + 1)}

\* generateId(): crypto.randomUUID(), an id no object of the state carries.
FreshId(used) == CHOOSE n \in 1..(Cardinality(used) + 1) : n \notin used

Range(seq) == {seq[k] : k \in 1..Len(seq)}

-----------------------------------------------------------------------------
(* window.localStorage                                                     *)

\* What getItem finds under a key: nothing, the JSON text of a value (kept
\* as the value it parses to), or text JSON.parse throws on.
StoredAbsent == [kind |-> "absent", value |-> <<>>]
StoredMalformed == [kind |-> "malformed", value |-> <<>>]
Stored(v) == [kind |-> "value", value |-> v]

EmptyStorage ==
    [conversations |-> StoredAbsent,
     documents |-> StoredAbsent,
     lastMessage |-> StoredAbsent,
     history |-> [c \in ConversationIds |-> StoredAbsent]]

InitialStorages == {EmptyStorage}

\* What an earlier run of part_000 can have left under its keys, or what
\* something else has put there (text that does not parse).  The instants
\* of the earlier run are before 0.
StoredConversationLists ==
    { StoredAbsent, StoredMalformed, Stored(<<defaultConversation>>),
      Stored(<<earlierConversation, defaultConversation>>) }

StoredDocumentLists ==
    { StoredAbsent, StoredMalformed, Stored(<<>>),
      Stored(<<[id |-> 1, name |-> "a.pdf", size |-> 1, indexedAt |-> -1]>>),
      Stored(<<[id |-> 2, name |-> "b.pdf", size |-> 2, indexedAt |-> -1],
               [id |-> 1, name |-> "a.pdf", size |-> 1, indexedAt |-> -2]>>) }

StoredMessages == {StoredAbsent, Stored(Some("Indexed"))}

\* A localStorage with these values under the three keys of Dashboard and
\* `histories` under the chat-history keys.
StorageWith(storedConversations, storedDocuments, storedMessage, histories) ==
    [conversations |-> storedConversations,
     documents |-> storedDocuments,
     lastMessage |-> storedMessage,
     history |-> histories]

ConversationStorages ==
    {StorageWith(c, StoredAbsent, StoredAbsent, EmptyStorage.history) :
        c \in StoredConversationLists}

\* A finished exchange a ChatArea of an earlier run flushed, with these ids.
earlierExchange(userId, assistantMessageId) ==
    <<[id |-> userId, role |-> "user", content |-> <<"a", "b">>,
       status |-> "complete", createdAt |-> -1, references |-> Undefined],
      [id |-> assistantMessageId, role |-> "assistant",
       content |-> <<"P", "a", "r", "i", "s">>, status |-> "complete",
       createdAt |-> -1, references |-> Some(<<>>)]>>

\* The chat-history keys: nothing under any, text that does not parse
\* under those of the conversations an earlier run can have shown, or an
\* exchange under each of them.
StoredHistories ==
    { EmptyStorage.history,
      [id \in ConversationIds |->
          IF id \in {"default", defaultConversation.id,
                     earlierConversation.id}
          THEN StoredMalformed ELSE StoredAbsent],
      [id \in ConversationIds |->
          CASE id = "default" -> Stored(earlierExchange(1, 2))
            [] id = defaultConversation.id -> Stored(earlierExchange(3, 4))
            [] id = earlierConversation.id -> Stored(earlierExchange(5, 6))
            [] OTHER -> StoredAbsent] }

AllStorages ==
    {StorageWith(c, d, m, h) :
        c \in StoredConversationLists, d \in StoredDocumentLists,
        m \in StoredMessages, h \in StoredHistories}

DocumentStorages ==
    {StorageWith(StoredAbsent, d, m, EmptyStorage.history) :
        d \in StoredDocumentLists, m \in StoredMessages}

-----------------------------------------------------------------------------
(* ChatArea: the message list and its storage                              *)

NoChat ==
    [mounted |-> FALSE, conversationId |-> "", message |-> <<>>,
     messages |-> <<>>, messagesRef |-> <<>>, isSending |-> FALSE]

\* The first render of a ChatArea: useState("") / useState([]) / useRef /
\* useState(false).
RenderChatArea(conversationId) ==
    [mounted |-> TRUE, conversationId |-> conversationId, message |-> <<>>,
     messages |-> <<>>, messagesRef |-> <<>>, isSending |-> FALSE]

\* The load effect: the stored list with every item's references kept when
\* they are an array and undefined otherwise; [] when nothing is stored or
\* the stored text does not parse.
parseHistory(stored) ==
    IF stored.kind = "value"
    THEN [k \in 1..Len(stored.value) |->
            [stored.value[k] EXCEPT
                !.references = IF Len(@) = 1 THEN @ ELSE Undefined]]
    ELSE <<>>

\* A ChatArea whose load effect loads nothing.
MountChatAreaUnloaded(conversationId, store) == RenderChatArea(conversationId)

\* A ChatArea after its mount effects: the history is loaded, and the
\* messagesRef effect of the render that follows has copied it.
MountChatArea(conversationId, store) ==
    LET loaded == parseHistory(store.history[conversationId])
    IN  [RenderChatArea(conversationId) EXCEPT
            !.messages = loaded, !.messagesRef = loaded]

\* The cleanup of the load effect: setItem(storageKey,
\* JSON.stringify(messagesRef.current)).
FlushChatArea(c, store) ==
    IF c.mounted
    THEN [store EXCEPT !.history[c.conversationId] = Stored(c.messagesRef)]
    ELSE store

\* The promises of an unmounted component resolve into setState calls that
\* do nothing: its calls are no longer live.
Orphan(calls) == {[c EXCEPT !.live = FALSE] : c \in calls}

\* The same for a bag of calls.
RECURSIVE OrphanBag(_)
OrphanBag(calls) ==
    IF calls = EmptyBag THEN EmptyBag
    ELSE LET c == CHOOSE x \in BagToSet(calls) : TRUE
             n == CopiesIn(c, calls)
             rest == [x \in BagToSet(calls) \ {c} |-> calls[x]]
         IN  OrphanBag(rest)
             (+) [x \in {[c EXCEPT !.live = FALSE]} |-> n]

-----------------------------------------------------------------------------
(* Dashboard: documents                                                    *)

\* The reduce with its comparison the other way round.
RECURSIVE ReduceEarliest(_, _)
ReduceEarliest(docs, latest) ==
    IF docs = <<>> THEN latest
    ELSE ReduceEarliest(Tail(docs),
                        IF Head(docs).indexedAt < latest
                        THEN Head(docs).indexedAt ELSE latest)

\* documents.reduce((latest, doc) => !latest || (doc.indexedAt &&
\* doc.indexedAt > latest) ? doc.indexedAt : latest, documents[0].indexedAt)
RECURSIVE ReduceLatest(_, _)
ReduceLatest(docs, latest) ==
    IF docs = <<>> THEN latest
    ELSE ReduceLatest(Tail(docs),
                      IF Head(docs).indexedAt > latest
                      THEN Head(docs).indexedAt ELSE latest)

latestIndexedAt(docs) == ReduceLatest(docs, docs[1].indexedAt)

\* files.map((file) => ({id: generateId(), name, size, indexedAt}))
RECURSIVE IndexedDocuments(_, _, _)
IndexedDocuments(files, indexedAt, used) ==
    IF files = <<>> THEN <<>>
    ELSE LET id == FreshId(used)
         IN  <<[id |-> id, name |-> Head(files).name,
                size |-> Head(files).size, indexedAt |-> indexedAt]>>
             \o IndexedDocuments(Tail(files), indexedAt, used \cup {id})

\* combined.findIndex((item) => item.name === name): 0 for not found.
FindIndex(combined, name) ==
    IF \E k \in 1..Len(combined) : combined[k].name = name
    THEN CHOOSE k \in 1..Len(combined) :
            /\ combined[k].name = name
            /\ \A j \in 1..(k - 1) : combined[j].name # name
    ELSE 0

\* indexedDocuments.forEach: replace the document of the same name, or push.
RECURSIVE Combine(_, _)
Combine(combined, docs) ==
    IF docs = <<>> THEN combined
    ELSE LET existingIndex == FindIndex(combined, Head(docs).name)
         IN  Combine(IF existingIndex > 0
                     THEN [combined EXCEPT ![existingIndex] = Head(docs)]
                     ELSE Append(combined, Head(docs)),
                     Tail(docs))

\* Array.prototype.sort with (a, b) => b.indexedAt.localeCompare(a.indexedAt):
\* stable, latest first.
RECURSIVE InsertSorted(_, _)
InsertSorted(sorted, doc) ==
    IF sorted = <<>> THEN <<doc>>
    ELSE IF Head(sorted).indexedAt >= doc.indexedAt
         THEN <<Head(sorted)>> \o InsertSorted(Tail(sorted), doc)
         ELSE <<doc>> \o sorted

\* The merge without its sort.
Unsorted(docs, sorted) == docs

RECURSIVE SortLatestFirst(_, _)
SortLatestFirst(docs, sorted) ==
    IF docs = <<>> THEN sorted
    ELSE SortLatestFirst(Tail(docs), InsertSorted(sorted, Head(docs)))

\* The updater handleIndexDocuments gives setDocuments: part_000 merges by
\* name and sorts, Dashboard.tsx appends.
MergeDocuments(prev, indexedDocuments) ==
    SortLatestFirst(Combine(prev, indexedDocuments), <<>>)

AppendDocuments(prev, indexedDocuments) == prev \o indexedDocuments

-----------------------------------------------------------------------------
(* Initial state: the first render, before any effect has run.             *)

NoResponse == QueryResponse(JSUndefined, JSUndefined, JSUndefined, JSUndefined)

\* The arguments and the outcome of the last step, when it was a call of
\* handleSend ("send": the text it was called on, the question it made of
\* it, the isReady and isSending it read, whether it went on to query) or the settling of a query
\* ("resolved" with the response, "rejected" with the error's message: the
\* placeholder's id, and whether the ChatArea that sent it is still
\* mounted) or the settling of an index call ("indexResolved",
\* "indexRejected" with the error's message: the files of the call, and
\* whether the DocumentManager that called is still mounted); NoStep after
\* any other step.
NoStep ==
    [kind |-> "none", text |-> <<>>, question |-> <<>>, isReady |-> FALSE,
     isSending |-> FALSE, accepted |-> FALSE, assistantMessageId |-> 0,
     live |-> FALSE, data |-> NoResponse, description |-> <<>>,
     files |-> <<>>]

SendStep(text, question, ready, sending, accepted) ==
    [NoStep EXCEPT !.kind = "send", !.text = text, !.question = question,
                   !.isReady = ready, !.isSending = sending,
                   !.accepted = accepted]

SettleStep(kind, q, data, description) ==
    [NoStep EXCEPT !.kind = kind, !.question = q.question,
                   !.assistantMessageId = q.assistantMessageId,
                   !.live = q.live, !.data = data,
                   !.description = description]

IndexStep(kind, call, description) ==
    [NoStep EXCEPT !.kind = kind, !.files = call.files, !.live = call.live,
                   !.description = description]

PureIdle ==
    /\ raw = <<>>
    /\ parsed = Undefined
    /\ reparsed = Undefined
    /\ resp = NoResponse
    /\ extracted = Undefined

\* The first render over a localStorage that is one of `stores`.
InitWith(stores) ==
    /\ page \in Pages
    /\ activeTab = "conversations"
    /\ isIndexing = FALSE
    /\ isReady = TRUE
    /\ documents = <<>>
    /\ lastIndexedAt = Undefined
    /\ lastMessage = Undefined
    /\ conversations = IF Persistent THEN <<>> ELSE <<defaultConversation>>
    /\ activeConversationId =
          IF Persistent THEN "default" ELSE defaultConversation.id
    /\ storage \in stores
    /\ selectedFiles = <<>>
    /\ error = Undefined
    /\ chat = RenderChatArea(activeConversationId)
    /\ indexCalls = EmptyBag
    /\ queries = {}
    /\ now = 0
    /\ booted = FALSE
    /\ lastStep = NoStep

InitDashboard == InitWith(InitialStorages)

Init == InitDashboard /\ PureIdle

MessageIds(msgs) == {msgs[k].id : k \in 1..Len(msgs)}

\* The ids Dashboard's generateId has handed out and that are still there.
UsedDocumentIds == {documents[k].id : k \in 1..Len(documents)}

\* The ids ChatArea's generateId has handed out and that are still there.
UsedIds ==
    MessageIds(chat.messages)
    \cup UNION {MessageIds(storage.history[c].value) : c \in ConversationIds}
    \cup {q.assistantMessageId : q \in queries}

-----------------------------------------------------------------------------
(* Dashboard: the effects                                                  *)

\* The lastMessage effect: setItem when lastMessage is a non-empty string,
\* removeItem otherwise.
PersistLastMessage(m) ==
    IF m # Undefined /\ m[1] # "" THEN Stored(m) ELSE StoredAbsent

\* The conversations effect without its setItem.
PersistConversationsNever(list, stored) == stored

\* The conversations effect: setItem unless the list is empty.
PersistConversations(list, stored) ==
    IF Len(list) = 0 THEN stored ELSE Stored(list)

\* The latestIndexedAt effect: nothing for an empty list.
LatestEffect(docs, last) ==
    IF Len(docs) = 0 THEN last ELSE Some(latestIndexedAt(docs))

\* The conversation load effect with the stored list loaded but none of
\* its conversations selected.
LoadConversationsUnselected(stored, list, active) ==
    CASE stored.kind = "value" ->
            [conversations |-> stored.value, activeConversationId |-> active]
      [] stored.kind = "absent" ->
            [conversations |-> <<defaultConversation>>,
             activeConversationId |-> defaultConversation.id]
      [] OTHER -> [conversations |-> list, activeConversationId |-> active]

\* The conversation load effect, with `list` and `active` the state it
\* runs in: the stored list and its first id; the default conversation
\* when nothing is stored; nothing when JSON.parse throws.
\* [conversations, activeConversationId] after it.
LoadConversations(stored, list, active) ==
    CASE stored.kind = "value" ->
            [conversations |-> stored.value,
             activeConversationId |->
                 IF Len(stored.value) > 0 THEN stored.value[1].id ELSE active]
      [] stored.kind = "absent" ->
            [conversations |-> <<defaultConversation>>,
             activeConversationId |-> defaultConversation.id]
      [] OTHER -> [conversations |-> list, activeConversationId |-> active]

\* The document load effect, with `docs` and `message` the state it runs
\* in: the stored list, then the stored message; JSON.parse throwing on
\* the list ends the effect before the message is read.
\* [documents, lastMessage] after it.
LoadDocuments(storedDocuments, storedMessage, docs, message) ==
    [documents |-> IF storedDocuments.kind = "value"
                   THEN storedDocuments.value ELSE docs,
     lastMessage |-> IF storedDocuments.kind # "malformed"
                        /\ storedMessage.kind = "value"
                     THEN storedMessage.value ELSE message]

\* The render after activeConversationId changed while the chat is shown:
\* the keyed ChatArea is replaced, the old one flushing its history and the
\* new one loading its own.  [chat, storage, queries] after it.
SwitchChat(id, store) ==
    IF activeTab = "conversations" /\ chat.mounted /\ id # chat.conversationId
    THEN LET flushed == FlushChatArea(chat, store)
         IN  [chat |-> MountChatArea(id, flushed), storage |-> flushed,
              queries |-> Orphan(queries)]
    ELSE [chat |-> chat, storage |-> store, queries |-> queries]

\* The mount effects of the first commit.  ChatArea's run first (it loads
\* the history of the conversation it was rendered with), then Dashboard's
\* in the order they are written: load conversations, persist them, load
\* documents and lastMessage, persist documents, persist lastMessage,
\* latestIndexedAt; then the renders and effects these cause.
Boot ==
    /\ ~booted
    /\ booted' = TRUE
    /\ IF Persistent
       THEN LET sc == storage.conversations
                sd == storage.documents
                sm == storage.lastMessage
                loadedList == LoadConversations(sc, conversations,
                                                activeConversationId)
                list == loadedList.conversations
                active == loadedList.activeConversationId
                loadedDocuments == LoadDocuments(sd, sm, documents,
                                                 lastMessage)
                docs == loadedDocuments.documents
                msg == loadedDocuments.lastMessage
                loaded == [chat EXCEPT
                              !.messages = parseHistory(storage.history[chat.conversationId])]
                store == [storage EXCEPT
                            !.conversations = PersistConversations(list, @),
                            !.documents = Stored(docs),
                            !.lastMessage = PersistLastMessage(msg)]
                flushed == IF active # chat.conversationId
                           THEN FlushChatArea(loaded, store) ELSE store
            IN  /\ conversations' = list
                /\ activeConversationId' = active
                /\ documents' = docs
                /\ lastIndexedAt' = LatestEffect(docs, lastIndexedAt)
                /\ lastMessage' = msg
                /\ isReady' = (IF Len(docs) > 0 THEN TRUE ELSE isReady)
                /\ storage' = flushed
                /\ chat' = MountChatArea(active, flushed)
       ELSE /\ chat' = MountChatArea(activeConversationId, storage)
            /\ UNCHANGED <<conversations, activeConversationId, documents,
                           lastIndexedAt, lastMessage, isReady, storage>>
    /\ lastStep' = NoStep
    /\ UNCHANGED <<page, activeTab, isIndexing, selectedFiles, error,
                   indexCalls, queries, now>>
    /\ UNCHANGED pureVars

\* Time passes.
Tick ==
    /\ booted
    /\ now < MaxClock
    /\ now' = now + 1
    /\ lastStep' = NoStep
    /\ UNCHANGED <<page, activeTab, isIndexing, isReady, documents,
                   lastIndexedAt, lastMessage, conversations,
                   activeConversationId, storage, selectedFiles, error, chat,
                   indexCalls, queries, booted>>
    /\ UNCHANGED pureVars

\* onTabChange = setActiveTab: the component of the other tab is unmounted
\* (a ChatArea flushes its history) and this tab's is mounted afresh.
TabChange(tab) ==
    /\ booted
    /\ tab # activeTab
    /\ activeTab' = tab
    /\ IF tab = "documents"
       THEN /\ storage' = FlushChatArea(chat, storage)
            /\ chat' = NoChat
            /\ queries' = Orphan(queries)
            /\ UNCHANGED indexCalls
       ELSE /\ chat' = MountChatArea(activeConversationId, storage)
            /\ indexCalls' = OrphanBag(indexCalls)
            /\ UNCHANGED <<storage, queries>>
    /\ selectedFiles' = <<>>
    /\ error' = Undefined
    /\ lastStep' = NoStep
    /\ UNCHANGED <<page, isIndexing, isReady, documents, lastIndexedAt,
                   lastMessage, conversations, activeConversationId, now,
                   booted>>
    /\ UNCHANGED pureVars

\* handleNewConversation: part_000 prepends a conversation whose id is
\* Date.now().toString() and selects it; Dashboard.tsx only logs.
handleNewConversation ==
    /\ booted
    /\ Persistent
    /\ Len(conversations) < MaxConversations
    /\ LET newConversation ==
              [id |-> DateNowString(now), title |-> "New Chat",
               model |-> "Flash", timestamp |-> toLocaleTimeString(now)]
           list == <<newConversation>> \o conversations
           store == [storage EXCEPT
                        !.conversations = PersistConversations(list, @)]
           next == SwitchChat(newConversation.id, store)
       IN  /\ conversations' = list
           /\ activeConversationId' = newConversation.id
           /\ chat' = next.chat
           /\ storage' = next.storage
           /\ queries' = next.queries
    /\ lastStep' = NoStep
    /\ UNCHANGED <<page, activeTab, isIndexing, isReady, documents,
                   lastIndexedAt, lastMessage, selectedFiles, error,
                   indexCalls, now, booted>>
    /\ UNCHANGED pureVars

\* handleSelectConversation(id), for an id of the list the Sidebar shows.
handleSelectConversation(id) ==
    /\ booted
    /\ Persistent
    /\ id # activeConversationId
    /\ LET next == SwitchChat(id, storage)
       IN  /\ activeConversationId' = id
           /\ chat' = next.chat
           /\ storage' = next.storage
           /\ queries' = next.queries
    /\ lastStep' = NoStep
    /\ UNCHANGED <<page, activeTab, isIndexing, isReady, documents,
                   lastIndexedAt, lastMessage, conversations, selectedFiles,
                   error, indexCalls, now, booted>>
    /\ UNCHANGED pureVars

-----------------------------------------------------------------------------
(* DocumentManager and Dashboard.handleIndexDocuments                      *)

NoFileSelected == "Hay chon it nhat mot tai lieu PDF de lap chi muc."

\* handleFilePick: the files of the input replace the selection.
handleFilePick(files) ==
    /\ booted
    /\ activeTab = "documents"
    /\ error' = Undefined
    /\ selectedFiles' = files
    /\ lastStep' = NoStep
    /\ UNCHANGED <<page, activeTab, isIndexing, isReady, documents,
                   lastIndexedAt, lastMessage, conversations,
                   activeConversationId, storage, chat, indexCalls, queries,
                   now, booted>>
    /\ UNCHANGED pureVars

\* handleRemoveFile(fileName)
handleRemoveFile(fileName) ==
    /\ booted
    /\ activeTab = "documents"
    /\ \E k \in 1..Len(selectedFiles) : selectedFiles[k].name = fileName
    /\ selectedFiles' = SelectSeq(selectedFiles, LAMBDA f : f.name # fileName)
    /\ lastStep' = NoStep
    /\ UNCHANGED <<page, activeTab, isIndexing, isReady, documents,
                   lastIndexedAt, lastMessage, conversations,
                   activeConversationId, storage, error, chat, indexCalls,
                   queries, now, booted>>
    /\ UNCHANGED pureVars

\* Dashboard.handleIndexDocuments up to its await: setIsIndexing(true),
\* setIsReady(false), and the request is on its way.  [isIndexing, isReady]
\* after it.
IndexingStarted == [isIndexing |-> TRUE, isReady |-> FALSE]

\* DocumentManager.handleIndexDocuments up to its await: an error for an
\* empty selection, the call of onIndexDocuments(selectedFiles) otherwise.
handleIndexDocuments ==
    /\ booted
    /\ activeTab = "documents"
    /\ IF Len(selectedFiles) = 0
       THEN /\ error' = Some(NoFileSelected)
            /\ UNCHANGED <<isIndexing, isReady, indexCalls>>
       ELSE /\ BagCardinality(indexCalls) < MaxCalls
            /\ isIndexing' = IndexingStarted.isIndexing
            /\ isReady' = IndexingStarted.isReady
            /\ indexCalls' =
                  indexCalls (+) SetToBag({[files |-> selectedFiles,
                                            live |-> TRUE]})
            /\ UNCHANGED error
    /\ lastStep' = NoStep
    /\ UNCHANGED <<page, activeTab, documents, lastIndexedAt, lastMessage,
                   conversations, activeConversationId, storage,
                   selectedFiles, chat, queries, now, booted>>
    /\ UNCHANGED pureVars

\* The finally block without its setIsReady(true).
IndexingFinishedNotReady == [isIndexing |-> FALSE, isReady |-> isReady]

\* The finally block of Dashboard.handleIndexDocuments (and the
\* setIsReady(true) before it): [isIndexing, isReady] after it.
IndexingFinished == [isIndexing |-> FALSE, isReady |-> TRUE]

\* The updater of the page that is running.
UpdateDocuments(prev, indexedDocuments) ==
    IF Persistent THEN MergeDocuments(prev, indexedDocuments)
    ELSE AppendDocuments(prev, indexedDocuments)

\* sendIndexRequest resolved: the rest of Dashboard.handleIndexDocuments
\* (new documents, lastIndexedAt, lastMessage, the flags) with the effects
\* of part_000 (latestIndexedAt, the two setItem), then the rest of
\* DocumentManager.handleIndexDocuments when that component is still there.
IndexResolved(call, message) ==
    /\ booted
    /\ BagIn(call, indexCalls)
    /\ LET indexedAt == toISOString(now)
           indexedDocuments == IndexedDocuments(call.files, indexedAt, UsedDocumentIds)
           docs == UpdateDocuments(documents, indexedDocuments)
       IN  /\ Len(docs) <= MaxDocs
           /\ documents' = docs
           /\ lastIndexedAt' = IF Persistent
                               THEN LatestEffect(docs, Some(indexedAt))
                               ELSE Some(indexedAt)
           /\ lastMessage' = message
           /\ storage' = IF Persistent
                         THEN [storage EXCEPT
                                  !.documents = Stored(docs),
                                  !.lastMessage = PersistLastMessage(message)]
                         ELSE storage
           /\ selectedFiles' = IF call.live THEN <<>> ELSE selectedFiles
    /\ isIndexing' = IndexingFinished.isIndexing
    /\ isReady' = IndexingFinished.isReady
    /\ indexCalls' = indexCalls (-) SetToBag({call})
    /\ lastStep' = IndexStep("indexResolved", call, <<>>)
    /\ UNCHANGED <<page, activeTab, conversations, activeConversationId,
                   error, chat, queries, now, booted>>
    /\ UNCHANGED pureVars

\* sendIndexRequest rejected: the finally block, and the error is thrown on
\* to DocumentManager.handleIndexDocuments, which shows its message.
IndexRejected(call, failure) ==
    /\ booted
    /\ BagIn(call, indexCalls)
    /\ isIndexing' = IndexingFinished.isIndexing
    /\ isReady' = IndexingFinished.isReady
    /\ error' = IF call.live THEN Some(failure) ELSE error
    /\ indexCalls' = indexCalls (-) SetToBag({call})
    /\ lastStep' = IndexStep("indexRejected", call, <<failure>>)
    /\ UNCHANGED <<page, activeTab, documents, lastIndexedAt, lastMessage,
                   conversations, activeConversationId, storage,
                   selectedFiles, chat, queries, now, booted>>
    /\ UNCHANGED pureVars

-----------------------------------------------------------------------------
(* ChatArea: sending                                                       *)

\* quickPrompts (one element stands for each fixed sentence).
quickPrompts == <<"Quy che dao tao co nhung diem gi dang chu y?">>

\* What the user can have typed in the textarea: nothing, white space, or
\* the first quick prompt with white space around it.
Drafts == {<<>>, <<SP, NL>>, <<SP, quickPrompts[1], NL>>}

\* The query responses of the model.
Responses ==
    { QueryResponse(JSString(<<"P", "a", "r", "i", "s">>),
                    JSUndefined, JSUndefined, JSUndefined),
      QueryResponse(JSString(<<SP>>), JSString(<<"x", SP, LB, "D", RB, NL>>),
                    JSUndefined, JSUndefined),
      QueryResponse(JSUndefined, JSUndefined, JSUndefined,
                    JSArray(<< <<"k">> >>)),
      NoResponse }

\* error.message of a rejected queryDocuments: the status error of api.ts,
\* or fetch's own.
QueryFailures ==
    { <<"Query request failed with status 500">>, <<"Failed to fetch">> }

\* The guard without its isSending operand: if (!question || !isReady)
SendRejectedUnlessSending(question) ==
    question = <<>> \/ ~isReady

\* The guard without its isReady operand: if (!question || isSending)
SendRejectedUnlessReady(question) ==
    question = <<>> \/ chat.isSending

\* handleSend's guard: if (!question || !isReady || isSending) return
SendRejected(question) ==
    question = <<>> \/ ~isReady \/ chat.isSending

\* handleSendClick's guard: if (!message.trim() || !isReady) return
ClickRejected == trim(chat.message) = <<>> \/ ~isReady

userMessage(id, question, createdAt) ==
    [id |-> id, role |-> "user", content |-> question,
     status |-> "complete", createdAt |-> createdAt,
     references |-> Undefined]

\* The placeholder with a creation instant of its own, taken after that of
\* the user message.
pendingAssistantLater(id, createdAt) ==
    [id |-> id, role |-> "assistant", content |-> <<>>,
     status |-> "loading", createdAt |-> createdAt + 1,
     references |-> Some(<<>>)]

pendingAssistant(id, createdAt) ==
    [id |-> id, role |-> "assistant", content |-> <<>>,
     status |-> "loading", createdAt |-> createdAt,
     references |-> Some(<<>>)]

\* handleSend(payload) up to its await, called with `draft` in the textarea
\* (handleQuickPrompt has just set it): nothing when the guard rejects;
\* else the two messages are appended, the textarea is cleared, isSending
\* is set and the query is on its way.
handleSend(payload, draft, rejectedBefore) ==
    LET text == IF payload = Undefined THEN draft ELSE payload[1]
        question == trim(text)
        rejected == rejectedBefore \/ SendRejected(question)
        createdAt == toISOString(now)
        userId == FreshId(UsedIds)
        assistantMessageId == FreshId(UsedIds \cup {userId})
        list == chat.messages
                \o <<userMessage(userId, question, createdAt),
                     pendingAssistant(assistantMessageId, createdAt)>>
    IN  /\ booted
        /\ chat.mounted
        /\ lastStep' = SendStep(text, question, isReady, chat.isSending,
                                ~rejected)
        /\ IF rejected
           THEN /\ chat' = [chat EXCEPT !.message = draft]
                /\ UNCHANGED queries
           ELSE /\ Len(chat.messages) < 2 * MaxSends
                /\ Cardinality(queries) < MaxQueries
                /\ chat' = [chat EXCEPT !.messages = list,
                                        !.messagesRef = list,
                                        !.message = <<>>,
                                        !.isSending = TRUE]
                /\ queries' = queries \cup
                                  {[assistantMessageId |-> assistantMessageId,
                                    question |-> question, live |-> TRUE]}
        /\ UNCHANGED <<page, activeTab, isIndexing, isReady, documents,
                       lastIndexedAt, lastMessage, conversations,
                       activeConversationId, storage, selectedFiles, error,
                       indexCalls, now, booted>>
        /\ UNCHANGED pureVars

\* The textarea's onChange: setMessage(e.target.value)
setMessage(text) ==
    /\ booted
    /\ chat.mounted
    /\ text # chat.message
    /\ chat' = [chat EXCEPT !.message = text]
    /\ lastStep' = NoStep
    /\ UNCHANGED <<page, activeTab, isIndexing, isReady, documents,
                   lastIndexedAt, lastMessage, conversations,
                   activeConversationId, storage, selectedFiles, error,
                   indexCalls, queries, now, booted>>
    /\ UNCHANGED pureVars

\* handleKeyDown, Enter without Shift: handleSend()
handleKeyDown == handleSend(Undefined, chat.message, FALSE)

\* handleSendClick: its own guard, then handleSend()
handleSendClick == handleSend(Undefined, chat.message, ClickRejected)

\* handleQuickPrompt(prompt): setMessage(prompt); handleSend(prompt)
handleQuickPrompt(prompt) == handleSend(Some(<<prompt>>), <<prompt>>, FALSE)

\* The map without its comparison of ids: every assistant message takes
\* the new content, status and references.
SettleEveryAssistant(item, assistantMessageId, content, status, references) ==
    IF item.role = "assistant"
    THEN [item EXCEPT !.content = content, !.status = status,
                      !.references = Some(references)]
    ELSE item

\* One message of the list after the query settled: the placeholder of this
\* send takes the new content, status and references; the others stay.
Settle(item, assistantMessageId, content, status, references) ==
    IF item.id = assistantMessageId
    THEN [item EXCEPT !.content = content, !.status = status,
                      !.references = Some(references)]
    ELSE item

\* The state of the ChatArea after the try / catch / finally of handleSend
\* ran for a query it still owns: the list is mapped, isSending is cleared.
Settled(c, assistantMessageId, content, status, references) ==
    LET list == [k \in 1..Len(c.messages) |->
                    Settle(c.messages[k], assistantMessageId, content,
                           status, references)]
    IN  [c EXCEPT !.messages = list, !.messagesRef = list,
                  !.isSending = FALSE]

\* queryDocuments resolved with `data`.
QueryResolved(q, data) ==
    /\ booted
    /\ q \in queries
    /\ LET answer == extractAnswer(data)
           result == parseAnswer(answer)
       IN  chat' = IF q.live
                   THEN Settled(chat, q.assistantMessageId, result.content,
                                "complete", result.references)
                   ELSE chat
    /\ queries' = queries \ {q}
    /\ lastStep' = SettleStep("resolved", q, data, <<>>)
    /\ UNCHANGED <<page, activeTab, isIndexing, isReady, documents,
                   lastIndexedAt, lastMessage, conversations,
                   activeConversationId, storage, selectedFiles, error,
                   indexCalls, now, booted>>
    /\ UNCHANGED pureVars

\* queryDocuments rejected with an Error whose message is `description`.
QueryRejected(q, description) ==
    /\ booted
    /\ q \in queries
    /\ chat' = IF q.live
               THEN Settled(chat, q.assistantMessageId, description,
                            "error", <<>>)
               ELSE chat
    /\ queries' = queries \ {q}
    /\ lastStep' = SettleStep("rejected", q, NoResponse, description)
    /\ UNCHANGED <<page, activeTab, isIndexing, isReady, documents,
                   lastIndexedAt, lastMessage, conversations,
                   activeConversationId, storage, selectedFiles, error,
                   indexCalls, now, booted>>
    /\ UNCHANGED pureVars

-----------------------------------------------------------------------------
(* The program                                                             *)

Next ==
    \/ Boot
    \/ Tick
    \/ \E tab \in Tabs : TabChange(tab)
    \/ handleNewConversation
    \/ \E k \in 1..Len(conversations) :
          handleSelectConversation(conversations[k].id)
    \/ \E files \in FileSelections : handleFilePick(files)
    \/ \E f \in Files : handleRemoveFile(f.name)
    \/ handleIndexDocuments
    \/ \E call \in BagToSet(indexCalls), message \in IndexMessages :
          IndexResolved(call, message)
    \/ \E call \in BagToSet(indexCalls), failure \in IndexFailures :
          IndexRejected(call, failure)
    \/ \E text \in Drafts : setMessage(text)
    \/ handleKeyDown
    \/ handleSendClick
    \/ \E k \in 1..Len(quickPrompts) : handleQuickPrompt(quickPrompts[k])
    \/ \E q \in queries, data \in Responses : QueryResolved(q, data)
    \/ \E q \in queries, description \in QueryFailures :
          QueryRejected(q, description)

Spec == Init /\ [][Next]_vars

-----------------------------------------------------------------------------
(* Parts of the program: the same actions, with the handlers a group of    *)
(* properties is about and the inputs they need.                           *)

\* Indexing: DocumentManager and Dashboard.handleIndexDocuments.
NextIndexing ==
    \/ Boot
    \/ Tick
    \/ \E tab \in Tabs : TabChange(tab)
    \/ \E files \in FileSelections : handleFilePick(files)
    \/ handleIndexDocuments
    \/ \E call \in BagToSet(indexCalls), message \in IndexMessages :
          IndexResolved(call, message)
    \/ \E call \in BagToSet(indexCalls), failure \in IndexFailures :
          IndexRejected(call, failure)

SpecIndexing == Init /\ [][NextIndexing]_vars

ParisResponse ==
    QueryResponse(JSString(<<"P", "a", "r", "i", "s">>),
                  JSUndefined, JSUndefined, JSUndefined)

\* Sending: every caller of handleSend, the settling of its query, the tab
\* switch that unmounts the ChatArea, and an indexing of one file, which
\* takes isReady away and gives it back.
NextSending ==
    \/ Boot
    \/ \E tab \in Tabs : TabChange(tab)
    \/ handleFilePick(<<FileA>>)
    \/ handleIndexDocuments
    \/ \E call \in BagToSet(indexCalls) : IndexResolved(call, Undefined)
    \/ \E call \in BagToSet(indexCalls), failure \in IndexFailures :
          IndexRejected(call, failure)
    \/ \E text \in Drafts : setMessage(text)
    \/ handleKeyDown
    \/ handleSendClick
    \/ \E k \in 1..Len(quickPrompts) : handleQuickPrompt(quickPrompts[k])
    \/ \E q \in queries : QueryResolved(q, ParisResponse)
    \/ \E q \in queries : QueryRejected(q, <<"Failed to fetch">>)

SpecSending == Init /\ [][NextSending]_vars

\* Answering: one way to send, every response and failure of the model.
NextAnswering ==
    \/ Boot
    \/ \E tab \in Tabs : TabChange(tab)
    \/ \E text \in Drafts : setMessage(text)
    \/ handleKeyDown
    \/ \E q \in queries, data \in Responses : QueryResolved(q, data)
    \/ \E q \in queries, description \in QueryFailures :
          QueryRejected(q, description)

SpecAnswering == Init /\ [][NextAnswering]_vars

\* Indexing over stored documents, on part_000: the documents of an
\* earlier run are loaded, files of new and of stored names are indexed.
InitStoredDocuments ==
    /\ InitWith(DocumentStorages)
    /\ Persistent
    /\ PureIdle

NextStoredDocuments ==
    \/ Boot
    \/ Tick
    \/ \E tab \in Tabs : TabChange(tab)
    \/ \E files \in {<<FileA>>, <<FileB, FileA>>} : handleFilePick(files)
    \/ handleIndexDocuments
    \/ \E call \in BagToSet(indexCalls) : IndexResolved(call, Undefined)
    \/ \E call \in BagToSet(indexCalls), failure \in IndexFailures :
          IndexRejected(call, failure)

SpecStoredDocuments == InitStoredDocuments /\ [][NextStoredDocuments]_vars

\* The conversation list of part_000 over a stored list: it is loaded, new
\* conversations are made and conversations are selected, in either tab.
InitConversations ==
    /\ InitWith(ConversationStorages)
    /\ Persistent
    /\ PureIdle

NextConversations ==
    \/ Boot
    \/ Tick
    \/ \E tab \in Tabs : TabChange(tab)
    \/ handleNewConversation
    \/ \E k \in 1..Len(conversations) :
          handleSelectConversation(conversations[k].id)

SpecConversations == InitConversations /\ [][NextConversations]_vars

\* Loading, on part_000: the mount effects over every stored state of the
\* model, and the later mounts of a ChatArea.
InitLoading ==
    /\ InitWith(AllStorages)
    /\ Persistent
    /\ PureIdle

NextLoading ==
    \/ Boot
    \/ \E tab \in Tabs : TabChange(tab)
    \/ \E k \in 1..Len(conversations) :
          handleSelectConversation(conversations[k].id)

SpecLoading == InitLoading /\ [][NextLoading]_vars

\* The conversation list of part_000 over every content of its key: no
\* list, a list, the empty list "[]", text that does not parse.
ConversationKeyStorages ==
    ConversationStorages
    \cup {StorageWith(Stored(<<>>), StoredAbsent, StoredAbsent,
                      EmptyStorage.history)}

InitConversationKey ==
    /\ InitWith(ConversationKeyStorages)
    /\ Persistent
    /\ PureIdle

SpecConversationKey == InitConversationKey /\ [][NextConversations]_vars

\* Histories, on part_000: chat histories and a conversation list of an
\* earlier run are stored; quick prompts are sent and answered, and the
\* ChatArea is torn down and mounted again by the selection of another
\* conversation and by the other tab.
HistoryStorages ==
    {StorageWith(c, StoredAbsent, StoredAbsent, h) :
        c \in {StoredAbsent, Stored(<<earlierConversation, defaultConversation>>)},
        h \in StoredHistories}

InitHistory ==
    /\ InitWith(HistoryStorages)
    /\ Persistent
    /\ PureIdle

NextHistory ==
    \/ Boot
    \/ \E tab \in Tabs : TabChange(tab)
    \/ \E k \in 1..Len(conversations) :
          handleSelectConversation(conversations[k].id)
    \/ handleQuickPrompt(quickPrompts[1])
    \/ \E q \in queries : QueryResolved(q, ParisResponse)

SpecHistory == InitHistory /\ [][NextHistory]_vars

\* Switching: a send and the settling of its query, with every way the
\* ChatArea that sent is torn down: a new conversation, the selection of
\* another one, the other tab.
NextSwitching ==
    \/ Boot
    \/ \E tab \in Tabs : TabChange(tab)
    \/ handleNewConversation
    \/ \E k \in 1..Len(conversations) :
          handleSelectConversation(conversations[k].id)
    \/ \E text \in Drafts : setMessage(text)
    \/ handleKeyDown
    \/ \E q \in queries : QueryResolved(q, ParisResponse)
    \/ \E q \in queries : QueryRejected(q, <<"Failed to fetch">>)

SpecSwitching == Init /\ [][NextSwitching]_vars

-----------------------------------------------------------------------------
(* parseAnswer and extractAnswer on their own: the input is drawn in the   *)
(* initial state and the function is applied to it.                        *)

\* The example of the specification:
\* "The rule is X [Doc A p.1] and Y [Doc A p.1] [Doc B p.2]"
DocA == <<LB, "D", "o", "c", SP, "A", SP, "p", ".", "1", RB>>
DocB == <<LB, "D", "o", "c", SP, "B", SP, "p", ".", "2", RB>>
RuleExample ==
    <<"T", "h", "e", SP, "r", "u", "l", "e", SP, "i", "s", SP, "X", SP>>
    \o DocA \o <<SP, "a", "n", "d", SP, "Y", SP>> \o DocA \o <<SP>> \o DocB

\* Answers longer than the enumerated ones: the example, and newline runs
\* around a reference.
LongAnswers ==
    { RuleExample,
      <<"a", NL, NL, NL, NL, "b", LB, "c", RB>>,
      <<"a", NL, NL, LB, "c", RB, NL, NL, "b", NL>>,
      <<LB, "a", RB, NL, NL, NL, LB, SP, "a", RB, LB, "A", RB>> }

RawAnswers == Str(MaxLen) \cup LongAnswers

InitParse ==
    /\ InitDashboard
    /\ page = "part_000"
    /\ raw \in RawAnswers
    /\ parsed = Undefined
    /\ reparsed = Undefined
    /\ resp = NoResponse
    /\ extracted = Undefined

\* const { content, references } = parseAnswer(answer)
Parse ==
    /\ parsed = Undefined
    /\ parsed' = Some(parseAnswer(raw))
    /\ UNCHANGED <<raw, reparsed, resp, extracted>>
    /\ UNCHANGED dashboardVars

\* parseAnswer applied to the content it returned
Reparse ==
    /\ parsed # Undefined
    /\ reparsed = Undefined
    /\ reparsed' = Some(parseAnswer(parsed[1].content))
    /\ UNCHANGED <<raw, parsed, resp, extracted>>
    /\ UNCHANGED dashboardVars

NextParse == Parse \/ Reparse

SpecParse == InitParse /\ [][NextParse]_vars

\* The values a field of the response can have.
FieldValues ==
    { JSUndefined, JSNull, JSNumber, JSObject,
      JSString(<<>>), JSString(<<SP, NL>>), JSString(<<SP, "a">>),
      JSString(<<"b", NL>>), JSArray(<<>>), JSArray(<< <<"k">> >>) }

InitExtract ==
    /\ InitDashboard
    /\ page = "part_000"
    /\ raw = <<>>
    /\ parsed = Undefined
    /\ reparsed = Undefined
    /\ resp \in {QueryResponse(a, r, u, d) :
                    a \in FieldValues, r \in FieldValues,
                    u \in FieldValues, d \in FieldValues}
    /\ extracted = Undefined

\* const answer = extractAnswer(response)
Extract ==
    /\ extracted = Undefined
    /\ extracted' = Some(extractAnswer(resp))
    /\ UNCHANGED <<raw, parsed, reparsed, resp>>
    /\ UNCHANGED dashboardVars

NextExtract == Extract

SpecExtract == InitExtract /\ [][NextExtract]_vars

-----------------------------------------------------------------------------
(* Properties: indexing                                                    *)

DocumentsMergedAndSorted ==
    /\ \A i \in 1..Len(documents) : \A j \in 1..Len(documents) :
          documents[i].name = documents[j].name => i = j
    /\ \A i \in 1..(Len(documents) - 1) :
          documents[i].indexedAt >= documents[i + 1].indexedAt

-----------------------------------------------------------------------------
(* Properties: sending                                                     *)

\* The queries of the mounted ChatArea: the sends of the session that have
\* not resolved.
Outstanding(calls) == {q \in calls : q.live}

\* A text with nothing in it but white space.
Blank(text) == \A k \in 1..Len(text) : text[k] \in WhiteSpace

\* C3: a session has at most one send outstanding at any time, and a call
\* of send made while a send of the session is outstanding leaves the number
\* of messages as it is and issues no query.
OneOutstandingSend ==
    /\ [](Cardinality(Outstanding(queries)) <= 1)
    /\ [][lastStep'.kind = "send" /\ Outstanding(queries) # {}
            => /\ Len(chat'.messages) = Len(chat.messages)
               /\ queries' = queries]_vars

\* C3's case: a send with a question, made by a ready session while its
\* earlier send was outstanding, has just been dropped.
SendDroppedWhileSending ==
    /\ lastStep.kind = "send"
    /\ lastStep.question # <<>>
    /\ lastStep.isReady
    /\ lastStep.isSending
    /\ ~lastStep.accepted
    /\ Outstanding(queries) # {}

\* C5: a send of an empty or white-space text, or one made while isReady is
\* false, appends no message, does not set isSending and issues no query.
BlankOrUnreadySendRejected ==
    [][lastStep'.kind = "send" /\ (Blank(lastStep'.text) \/ ~isReady)
         => /\ chat'.messages = chat.messages
            /\ chat'.isSending = chat.isSending
            /\ queries' = queries]_vars

\* C5's case: a send with a question, made by an idle session while isReady
\* was false, has just been dropped, after an earlier send was accepted.
SendDroppedWhileNotReady ==
    /\ lastStep.kind = "send"
    /\ ~Blank(lastStep.text)
    /\ ~lastStep.isReady
    /\ ~lastStep.isSending
    /\ ~lastStep.accepted
    /\ Len(chat.messages) > 0

\* The message list of a conversation: that of the ChatArea mounted for it,
\* the stored history otherwise.
MessageList(c, store, conversationId) ==
    IF c.mounted /\ c.conversationId = conversationId THEN c.messages
    ELSE IF store.history[conversationId].kind = "value"
         THEN store.history[conversationId].value
         ELSE <<>>

\* The messages of every conversation.
AllMessages(c, store) ==
    UNION {Range(MessageList(c, store, id)) : id \in ConversationIds}

\* C4, as stated: when the ChatArea is torn down while a query is pending,
\* the response still updates the list of its conversation: a message stays
\* in "loading" only while the query of its send is outstanding.
\* (Violated: the response of a torn-down ChatArea is dropped, and the
\* history it flushed keeps the placeholder in "loading".)
PendingMessageSettles ==
    \A m \in AllMessages(chat, storage) :
        m.status = "loading"
            => \E q \in queries : q.assistantMessageId = m.id

\* Every message but the one with this id is, after the step, what it was.
OthersUnchanged(assistantMessageId) ==
    \A id \in ConversationIds :
        LET before == MessageList(chat, storage, id)
            after == MessageList(chat', storage', id)
        IN  /\ Len(after) = Len(before)
            /\ \A k \in 1..Len(before) :
                  before[k].id # assistantMessageId => after[k] = before[k]

\* C8, as stated: when the query fails, the pending assistant message of
\* the send gets status "error", a content that is not empty and no
\* reference, no other message changes, and the isSending of the session
\* that sent is false again.
\* (Violated for the query of a torn-down ChatArea: see C4.)
QueryFailureShown ==
    [][lastStep'.kind = "rejected"
         => /\ \E m \in AllMessages(chat', storage') :
                  /\ m.id = lastStep'.assistantMessageId
                  /\ m.status = "error"
                  /\ m.content # <<>>
                  /\ m.references = Some(<<>>)
            /\ OthersUnchanged(lastStep'.assistantMessageId)
            /\ lastStep'.live => ~chat'.isSending]_vars

\* C9, as stated: when the query succeeds, the pending assistant message of
\* the send, and no other, gets status "complete" and the content and
\* references parseAnswer makes of the extracted answer; "Paris" and no
\* reference for the response {"answer": "Paris"}.
\* (Violated for the query of a torn-down ChatArea: see C4.)
QuerySuccessShown ==
    [][lastStep'.kind = "resolved"
         => LET result == parseAnswer(extractAnswer(lastStep'.data))
            IN  /\ \E m \in AllMessages(chat', storage') :
                      /\ m.id = lastStep'.assistantMessageId
                      /\ m.status = "complete"
                      /\ m.content = result.content
                      /\ m.references = Some(result.references)
                      /\ lastStep'.data = ParisResponse
                            => /\ m.content = <<"P", "a", "r", "i", "s">>
                               /\ m.references = Some(<<>>)
                /\ OthersUnchanged(lastStep'.assistantMessageId)]_vars

-----------------------------------------------------------------------------
(* Properties: parseAnswer                                                 *)

\* The bracketed spans of s, as [first, last] index pairs: a "[", one or
\* more characters that are not "]", and a "]", the "[" being one that no
\* earlier "[" reaches without meeting a "]".
Spans(s) ==
    {sp \in (1..Len(s)) \X (1..Len(s)) :
        /\ s[sp[1]] = LB
        /\ s[sp[2]] = RB
        /\ sp[2] >= sp[1] + 2
        /\ \A k \in sp[1]..(sp[2] - 1) : s[k] # RB
        /\ \A k \in 1..(sp[1] - 1) :
              s[k] = LB => \E m \in (k + 1)..(sp[1] - 1) : s[m] = RB}

\* The spans from left to right.
SpanSeq(s) ==
    LET all == Spans(s)
    IN  [k \in 1..Cardinality(all) |->
            CHOOSE sp \in all :
                Cardinality({t \in all : t[1] < sp[1]}) = k - 1]

\* The text between the brackets of every span, from left to right.
SpanTexts(s) ==
    LET spans == SpanSeq(s)
    IN  [k \in 1..Len(spans) |-> SubSeq(s, spans[k][1] + 1, spans[k][2] - 1)]

\* The same texts trimmed, without the empty ones.
TrimmedSpanTexts(s) ==
    LET texts == SpanTexts(s)
    IN  SelectSeq([k \in 1..Len(texts) |-> trim(texts[k])],
                  LAMBDA t : t # <<>>)

\* s without the characters of its spans.
WithoutSpans(s) ==
    LET all == Spans(s)
        kept == SelectSeq([k \in 1..Len(s) |-> k],
                          LAMBDA k : \A sp \in all : k < sp[1] \/ k > sp[2])
    IN  [k \in 1..Len(kept) |-> s[kept[k]]]

\* Where x is first in texts.
FirstIn(texts, x) ==
    CHOOSE k \in 1..Len(texts) :
        texts[k] = x /\ \A m \in 1..(k - 1) : texts[m] # x

\* references has each of the texts once, in the order they first occur.
ListsOnce(references, texts) ==
    /\ \A a \in 1..Len(references) : \A b \in 1..Len(references) :
          references[a] = references[b] => a = b
    /\ Range(references) = Range(texts)
    /\ \A a \in 1..Len(references) : \A b \in 1..Len(references) :
          a < b => FirstIn(texts, references[a]) < FirstIn(texts, references[b])

\* The example's references and content.
RuleReferences ==
    << <<"D", "o", "c", SP, "A", SP, "p", ".", "1">>,
       <<"D", "o", "c", SP, "B", SP, "p", ".", "2">> >>

RuleContent ==
    <<"T", "h", "e", SP, "r", "u", "l", "e", SP, "i", "s", SP, "X", SP, SP,
      "a", "n", "d", SP, "Y">>

\* C6, as stated: parsing the content of a first parse gives the same
\* content and no reference, for every raw answer.
\* (Violated by "[a]": nothing is left when the span is removed, the content
\* is the input, and parsing it again finds the reference again.)
ReparseSameContentNoReferences ==
    reparsed # Undefined
        => /\ reparsed[1].content = parsed[1].content
           /\ reparsed[1].references = <<>>

\* C6, amended: parsing the content of a first parse gives the same content
\* for every raw answer; it gives no reference unless the raw answer has
\* spans and nothing else but white space, and then it gives the references
\* of the first parse.
ReparseSameContent ==
    reparsed # Undefined
        => /\ reparsed[1].content = parsed[1].content
           /\ reparsed[1].references =
                 IF Spans(raw) # {} /\ Blank(WithoutSpans(raw))
                 THEN parsed[1].references
                 ELSE <<>>

\* C6's case: the content of a first parse has been parsed again, and still
\* had a reference in it.
ReparsedWithReferences ==
    /\ reparsed # Undefined
    /\ reparsed[1].references # <<>>

\* C7, as stated: the references are the texts of the spans, each once, in
\* the order they first occur, and the content is the input without its
\* spans, with the runs of three newlines or more made two, trimmed.
\* (Violated by "[ a]": the reference is "a", and the content is the input.)
ReferencesAreSpanTexts ==
    parsed # Undefined
        => /\ ListsOnce(parsed[1].references, SpanTexts(raw))
           /\ parsed[1].content = trim(CollapseNewlines(WithoutSpans(raw)))

\* C7, amended: the references are the trimmed texts of the spans that are
\* not empty when trimmed, each once, in the order they first occur; the
\* content of an input with spans is the input without them, with the runs
\* of three newlines or more made two, trimmed, unless that is empty; the
\* content is the trimmed input otherwise.  The example gives
\* ["Doc A p.1", "Doc B p.2"] and "The rule is X  and Y".
ReferencesAreTrimmedSpanTexts ==
    parsed # Undefined
        => LET shown == trim(CollapseNewlines(WithoutSpans(raw)))
           IN  /\ ListsOnce(parsed[1].references, TrimmedSpanTexts(raw))
               /\ parsed[1].content =
                     IF Spans(raw) # {} /\ shown # <<>> THEN shown
                     ELSE trim(raw)
               /\ raw = RuleExample
                     => /\ parsed[1].references = RuleReferences
                        /\ parsed[1].content = RuleContent

\* C7's case: the example has been parsed.
RuleExampleParsed ==
    /\ raw = RuleExample
    /\ parsed # Undefined
    /\ Len(parsed[1].references) = 2

-----------------------------------------------------------------------------
(* Properties: extractAnswer                                               *)

\* A field that is a string with more in it than white space.
HasAnswer(v) == v.t = "string" /\ ~Blank(v.s)

\* C10: the extracted answer is the first of the fields answer, response,
\* result and data that is a string not empty when trimmed, trimmed; the
\* serialization of data when there is none and data is an object or an
\* array; the fixed text otherwise; and it is never empty.
ExtractedByPriority ==
    extracted # Undefined
        => LET fields == <<resp.answer, resp.response, resp.result, resp.data>>
               first == {k \in 1..4 :
                           /\ HasAnswer(fields[k])
                           /\ \A m \in 1..(k - 1) : ~HasAnswer(fields[m])}
               structured == resp.data.t \in {"object", "array"}
           IN  /\ \A k \in first : extracted[1] = trim(fields[k].s)
               /\ first = {} /\ structured
                     => extracted[1] = JSONStringify(resp.data)
               /\ first = {} /\ ~structured => extracted[1] = NoAnswerText
               /\ extracted[1] # <<>>

\* C10's case: the answer field is a string of white space, the response
\* field is not a string, the result field has an answer, and it has been
\* extracted.
ExtractedFromResult ==
    /\ extracted # Undefined
    /\ resp.answer.t = "string"
    /\ Blank(resp.answer.s)
    /\ resp.answer.s # <<>>
    /\ resp.response.t = "object"
    /\ HasAnswer(resp.result)
    /\ HasAnswer(resp.data)
    /\ extracted[1] = trim(resp.result.s)

-----------------------------------------------------------------------------
(* Properties: the documents of part_000                                   *)

\* C11: once the mount effects have run, and after every handler and its
\* effects, lastIndexedAt is absent when there is no document and is the
\* greatest indexedAt of the documents otherwise.
LastIndexedAtIsLatest ==
    booted
        => IF documents = <<>> THEN lastIndexedAt = Undefined
           ELSE /\ lastIndexedAt # Undefined
                /\ \E k \in 1..Len(documents) :
                      documents[k].indexedAt = lastIndexedAt[1]
                /\ \A k \in 1..Len(documents) :
                      documents[k].indexedAt <= lastIndexedAt[1]

\* C11's case: documents of an earlier run were loaded, a file of another
\* name has been indexed since, and the instants differ.
IndexedOverStoredDocuments ==
    /\ booted
    /\ lastStep.kind = "indexResolved"
    /\ Len(documents) >= 2
    /\ \E k \in 1..Len(documents) : documents[k].indexedAt < 0
    /\ \E k \in 1..Len(documents) : documents[k].indexedAt > 0

-----------------------------------------------------------------------------
(* Properties: the conversation list of part_000                           *)

\* C12: the load of the conversation list, when nothing is stored, leaves
\* one conversation, titled "New Chat", and makes it the active one; when a
\* list that is not empty is stored, it leaves that list and makes its
\* first conversation the active one.
ConversationsLoadedOrInitialized ==
    [][~booted /\ booted'
         => LET stored == storage.conversations
            IN  /\ stored.kind = "absent"
                      => /\ Len(conversations') = 1
                         /\ conversations'[1].title = "New Chat"
                         /\ activeConversationId' = conversations'[1].id
                /\ stored.kind = "value" /\ Len(stored.value) > 0
                      => /\ conversations' = stored.value
                         /\ activeConversationId' = stored.value[1].id]_vars

\* C12's case: a stored list of two conversations has been loaded, and the
\* ChatArea shown is that of its first conversation.
StoredConversationsLoaded ==
    /\ booted
    /\ now = 0
    /\ Len(conversations) = 2
    /\ conversations[1] = earlierConversation
    /\ activeConversationId = earlierConversation.id
    /\ chat.mounted
    /\ chat.conversationId = earlierConversation.id

-----------------------------------------------------------------------------
(* Properties: storage                                                     *)

\* The step mounts a ChatArea.
ChatAreaMounted ==
    /\ chat'.mounted
    /\ ~booted \/ ~chat.mounted \/ chat'.conversationId # chat.conversationId

\* C13, as stated: text that does not parse under a key is read as if the
\* key were absent: the conversation list is the default conversation, and
\* it is the active one; the document list is empty; the message list of
\* the ChatArea is empty.
\* (Violated for the conversation key: the list stays empty and the active
\* id stays "default".)
MalformedReadAsAbsent ==
    [][/\ ~booted /\ booted' /\ storage.conversations.kind = "malformed"
            => /\ conversations' = <<defaultConversation>>
               /\ activeConversationId' = defaultConversation.id
       /\ ~booted /\ booted' /\ storage.documents.kind = "malformed"
            => documents' = <<>>
       /\ ChatAreaMounted
            /\ storage.history[chat'.conversationId].kind = "malformed"
            => chat'.messages = <<>>]_vars

-----------------------------------------------------------------------------
(* Properties: the failure of an index call                                *)

\* C14: when the index call fails, the error goes on to the caller, which
\* shows its message when it is still mounted; isIndexing is false and
\* isReady is true after it; documents, lastIndexedAt and lastMessage, and
\* what is stored of them, are what they were.
IndexFailureRethrown ==
    [][lastStep'.kind = "indexRejected"
         => /\ lastStep'.live => error' = Some(lastStep'.description[1])
            /\ ~isIndexing'
            /\ isReady'
            /\ documents' = documents
            /\ lastIndexedAt' = lastIndexedAt
            /\ lastMessage' = lastMessage
            /\ storage'.documents = storage.documents
            /\ storage'.lastMessage = storage.lastMessage]_vars

\* C14's case: with documents and a last message loaded from storage, an
\* index call has just failed and its DocumentManager shows the error.
IndexFailedOverStoredDocuments ==
    /\ lastStep.kind = "indexRejected"
    /\ lastStep.live
    /\ error = Some("Index request failed with status 500")
    /\ Len(documents) > 0
    /\ lastMessage # Undefined
    /\ storage.documents = Stored(documents)
    /\ indexCalls = EmptyBag

-----------------------------------------------------------------------------
(* Properties: the stored conversation list                                *)

\* C15: a step that changes the conversation list to a non-empty list
\* stores that list; a stored non-empty list is followed by a stored
\* non-empty list; and after every step of the mounted Dashboard a
\* non-empty conversation list is the stored one.
ConversationsPersisted ==
    [][/\ conversations' # conversations /\ conversations' # <<>>
            => storage'.conversations = Stored(conversations')
       /\ storage.conversations.kind = "value"
          /\ Len(storage.conversations.value) > 0
            => /\ storage'.conversations.kind = "value"
               /\ Len(storage'.conversations.value) > 0
       /\ booted' /\ conversations' # <<>>
            => storage'.conversations = Stored(conversations')]_vars

\* C15's case: a conversation was created on top of a stored list of two,
\* and the three are stored.
CreatedOverStoredConversations ==
    /\ booted
    /\ Len(conversations) = 3
    /\ conversations[2] = earlierConversation
    /\ conversations[3] = defaultConversation
    /\ storage.conversations = Stored(conversations)

-----------------------------------------------------------------------------
(* Properties: creating a conversation                                     *)

\* C16, as stated: a step that creates a conversation puts one new
\* conversation in front of the list, with an id that no conversation of
\* the list had, keeps the others in their order and selects the new one.
\* (Violated: the id is Date.now().toString(), so a second conversation
\* created at the same instant gets the id of the first.)
CreatedConversationIsFresh ==
    [][Len(conversations') = Len(conversations) + 1
         => /\ \A k \in 1..Len(conversations) :
                   conversations[k].id # conversations'[1].id
            /\ conversations'[1].id # "default"
            /\ Tail(conversations') = conversations
            /\ activeConversationId' = conversations'[1].id]_vars

-----------------------------------------------------------------------------
(* Properties: the stored chat histories                                   *)

\* The ChatArea of the state before the step is torn down by it.
ChatAreaTornDown ==
    /\ chat.mounted
    /\ ~chat'.mounted \/ chat'.conversationId # chat.conversationId

\* C17: a step that tears a ChatArea down stores its message list under
\* the key of its conversation; a ChatArea mounted on a conversation with a
\* stored list has that list as its messages; and no step changes the
\* stored history of a conversation other than the one whose ChatArea it
\* tears down.
HistoryRoundTrip ==
    [][/\ ChatAreaTornDown
            => storage'.history[chat.conversationId] = Stored(chat.messages)
       /\ ChatAreaMounted
          /\ storage'.history[chat'.conversationId].kind = "value"
            => chat'.messages = storage'.history[chat'.conversationId].value
       /\ \A c \in ConversationIds :
             ~(ChatAreaTornDown /\ c = chat.conversationId)
                => storage'.history[c] = storage.history[c]]_vars

\* C17's case: a conversation with an exchange of this run, answered, was
\* torn down and is mounted again, with the messages that were stored.
HistoryReloaded ==
    /\ chat.mounted
    /\ lastStep.kind = "none"
    /\ queries = {}
    /\ Len(chat.messages) >= 2
    /\ chat.messages[Len(chat.messages)].createdAt >= 0
    /\ chat.messages[Len(chat.messages)].status = "complete"
    /\ chat.messages[Len(chat.messages)].references # Undefined
    /\ storage.history[chat.conversationId] = Stored(chat.messages)

-----------------------------------------------------------------------------
(* Properties: the messages of a list                                      *)

\* The ChatArea of the state before the step is still there after it.
ChatAreaKept ==
    /\ chat.mounted
    /\ chat'.mounted
    /\ chat'.conversationId = chat.conversationId

\* What may happen to a message in one step: nothing, or, for an assistant
\* message that is loading, a new content, status and references with the
\* status complete or error.
SettledOnce(old, new) ==
    \/ new = old
    \/ /\ old.role = "assistant"
       /\ old.status = "loading"
       /\ new.status \in {"complete", "error"}
       /\ new.id = old.id
       /\ new.role = old.role
       /\ new.createdAt = old.createdAt

\* C18: while a ChatArea lives, a step keeps every message of its list at
\* its place, unchanged or settled from loading to complete or error; a
\* complete or error message and a user message are unchanged; and a list
\* that is stored and loaded again is the same list.
MessagesSettleOnce ==
    [][/\ ChatAreaKept
            => /\ Len(chat'.messages) >= Len(chat.messages)
               /\ \A k \in 1..Len(chat.messages) :
                     /\ SettledOnce(chat.messages[k], chat'.messages[k])
                     /\ chat.messages[k].status # "loading"
                        \/ chat.messages[k].role = "user"
                          => chat'.messages[k] = chat.messages[k]
       /\ ChatAreaTornDown
            => storage'.history[chat.conversationId].value = chat.messages
       /\ ChatAreaMounted
          /\ storage.history[chat'.conversationId].kind = "value"
          /\ ~(ChatAreaTornDown /\ chat'.conversationId = chat.conversationId)
            => chat'.messages = storage.history[chat'.conversationId].value]_vars

\* C18's case: the second answer of a list has just arrived, the first
\* one being complete or error already.
SecondAnswerSettled ==
    /\ lastStep.kind \in {"resolved", "rejected"}
    /\ lastStep.live
    /\ Len(chat.messages) = 4
    /\ chat.messages[2].status \in {"complete", "error"}
    /\ chat.messages[4].id = lastStep.assistantMessageId
    /\ chat.messages[4].status \in {"complete", "error"}
    /\ chat.messages[2].content # chat.messages[4].content

-----------------------------------------------------------------------------
(* Properties: the pairs of a message list                                 *)

\* The list is made of pairs: a user message, then an assistant message
\* created at the same instant.
Paired(list) ==
    /\ Len(list) % 2 = 0
    /\ \A k \in 1..Len(list) :
          IF k % 2 = 1
          THEN list[k].role = "user"
          ELSE /\ list[k].role = "assistant"
               /\ list[k].createdAt = list[k - 1].createdAt
               /\ list[k].id # list[k - 1].id

\* C19: the step of an accepted send appends the user message, complete,
\* and its placeholder, loading and of the same instant, and nothing else,
\* and it is the step that starts the query for that placeholder; after
\* every step the message list of the ChatArea is made of pairs.
SendAppendsPair ==
    [][/\ lastStep'.kind = "send" /\ lastStep'.accepted
            => LET n == Len(chat.messages)
                   list == chat'.messages
               IN  /\ Len(list) = n + 2
                   /\ SubSeq(list, 1, n) = chat.messages
                   /\ list[n + 1].role = "user"
                   /\ list[n + 1].status = "complete"
                   /\ list[n + 1].content = lastStep'.question
                   /\ list[n + 2].role = "assistant"
                   /\ list[n + 2].status = "loading"
                   /\ list[n + 2].createdAt = list[n + 1].createdAt
                   /\ \E q \in queries' \ queries :
                         /\ q.assistantMessageId = list[n + 2].id
                         /\ queries' = queries \cup {q}
       /\ chat'.mounted => Paired(chat'.messages)]_vars

\* C19's case: a second send has just been accepted, and the list holds
\* the first pair, answered, and the new pair.
SecondPairAppended ==
    /\ lastStep.kind = "send"
    /\ lastStep.accepted
    /\ Len(chat.messages) = 4
    /\ chat.messages[2].status = "complete"
    /\ chat.messages[4].status = "loading"
    /\ \E q \in queries : q.live /\ q.assistantMessageId = chat.messages[4].id

-----------------------------------------------------------------------------
(* Properties: indexing a file again                                       *)

DocumentNames(docs) == {docs[k].name : k \in 1..Len(docs)}

\* The step is a successful index call of part_000 all of whose files have
\* the names of documents of the list.
Reindexed ==
    /\ Persistent
    /\ lastStep'.kind = "indexResolved"
    /\ DocumentNames(lastStep'.files) \subseteq DocumentNames(documents)

\* The documents of the list that the files of the step do not name.
NotReindexed(docs) ==
    LET Other(doc) == doc.name \notin DocumentNames(lastStep'.files)
    IN  SelectSeq(docs, Other)

\* C20, as stated: indexing files of existing names leaves the list as long
\* as it was, with every name at the position it had.
\* (Violated: the merged list is sorted latest first, which moves the new
\* entry in front of the documents indexed before it.)
ReindexedInPlace ==
    [][Reindexed
         => /\ Len(documents') = Len(documents)
            /\ \A k \in 1..Len(documents) :
                  documents'[k].name = documents[k].name]_vars

\* C20, amended: indexing files of existing names leaves the list as long
\* as it was, with one entry for each name; the entry of an indexed name
\* is the new one; the other documents keep their entries and their
\* order; the list is sorted latest first; and a single indexed file
\* keeps its position when no document before it is older and no document
\* after it is newer than its new entry.
ReindexedReplacedAndSorted ==
    [][Reindexed
         => /\ Len(documents') = Len(documents)
            /\ DocumentNames(documents') = DocumentNames(documents)
            /\ \A k \in 1..Len(documents') :
                  documents'[k].name \in DocumentNames(lastStep'.files)
                     => /\ documents'[k].indexedAt = toISOString(now)
                        /\ \E f \in 1..Len(lastStep'.files) :
                              /\ lastStep'.files[f].name = documents'[k].name
                              /\ lastStep'.files[f].size = documents'[k].size
            /\ NotReindexed(documents') = NotReindexed(documents)
            /\ \A i, j \in 1..Len(documents') :
                  i < j => documents'[i].indexedAt >= documents'[j].indexedAt
            /\ \A p \in 1..Len(documents) :
                  (/\ Len(lastStep'.files) = 1
                   /\ documents[p].name = lastStep'.files[1].name
                   /\ \A i \in 1..(p - 1) :
                         documents[i].indexedAt >= toISOString(now)
                   /\ \A i \in (p + 1)..Len(documents) :
                         documents[i].indexedAt <= toISOString(now))
                     => documents'[p].name = documents[p].name]_vars

\* C20's case: of two stored documents the second was indexed again, and
\* its new entry stands first.
ReindexedMovedFirst ==
    /\ lastStep.kind = "indexResolved"
    /\ Len(lastStep.files) = 1
    /\ Len(documents) = 2
    /\ documents[1].name = lastStep.files[1].name
    /\ documents[1].indexedAt = toISOString(now)
    /\ documents[2].name = "b.pdf"
    /\ documents[2].indexedAt < 0

-----------------------------------------------------------------------------
(* Properties: the last status message                                     *)

\* C21, as stated: a successful index call leaves a status message where
\* there was one, in memory and in storage: the message of the response
\* when it has one, the message held before when it has none.
\* (Violated: setLastMessage(response.message) is called with undefined
\* when the response has no message, and the effect then removes the key.)
LastMessageKept ==
    [][lastStep'.kind = "indexResolved" /\ lastMessage # Undefined
         => /\ lastMessage' # Undefined
            /\ storage'.lastMessage.kind = "value"]_vars

-----------------------------------------------------------------------------
(* Properties: sending while an index call is outstanding                  *)

-----------------------------------------------------------------------------
(* Properties: the active conversation                                     *)

\* C23, as stated: once the mount effects have run, the active
\* conversation id is the id of a conversation of the list.
\* (Violated: a stored empty list and a stored text that does not parse
\* both leave the list empty and the id "default".)
ActiveConversationListed ==
    booted
        => \E k \in 1..Len(conversations) :
              conversations[k].id = activeConversationId

====
